---- MODULE Spec2Model ----
(***************************************************************************)
(* The input validators of oniongate (oniongate/validators.py).            *)
(*                                                                         *)
(* A Python str is a sequence of one-character strings.  A validator call  *)
(* is one step: `request` holds the raw argument, `config` the             *)
(* application configuration the call reads (flask's current_app.config),  *)
(* `result` what the call returned or raised.                              *)
(***************************************************************************)
EXTENDS Integers, Sequences, FiniteSets, TLC

VARIABLES
    config,     \* current_app.config: the keys the validators read
    op,         \* the validator the request is for
    request,    \* the validator's argument(s)
    result,     \* what the call returned or raised; NoResult before the call
    pc          \* "start" before the call, "done" after it

vars == <<config, op, request, result, pc>>

(***************************************************************************)
(* Bounds of the model.                                                    *)
(***************************************************************************)
\* Longest freely chosen part of a label, hostname or onion request.
MaxLen == 3
\* Longest freely chosen part of a domain_name request.
MaxDomainLen == 4
\* Longest record type request.
MaxTypeLen == 4

(***************************************************************************)
(* Characters and the str methods the validators use.                      *)
(***************************************************************************)
LowerSeq ==
    << "a", "b", "c", "d", "e", "f", "g", "h", "i", "j", "k", "l", "m",
       "n", "o", "p", "q", "r", "s", "t", "u", "v", "w", "x", "y", "z" >>

UpperSeq ==
    << "A", "B", "C", "D", "E", "F", "G", "H", "I", "J", "K", "L", "M",
       "N", "O", "P", "Q", "R", "S", "T", "U", "V", "W", "X", "Y", "Z" >>

\* [a-z]
LowerChars == { LowerSeq[i] : i \in 1..26 }

\* [A-Z]
UpperChars == { UpperSeq[i] : i \in 1..26 }

\* \d, on ASCII input
DigitChars == { "0", "1", "2", "3", "4", "5", "6", "7", "8", "9" }

\* What str.strip() removes, on ASCII input
WhitespaceChars == { " ", "\t", "\n", "\r" }

lower_char(c) ==
    IF c \in UpperChars
    THEN LowerSeq[CHOOSE i \in 1..26 : UpperSeq[i] = c]
    ELSE c

upper_char(c) ==
    IF c \in LowerChars
    THEN UpperSeq[CHOOSE i \in 1..26 : LowerSeq[i] = c]
    ELSE c

\* str.lower()
lower(s) == [i \in 1..Len(s) |-> lower_char(s[i])]

\* str.upper()
upper(s) == [i \in 1..Len(s) |-> upper_char(s[i])]

\* c in s, for a one-character c
Contains(s, c) == \E i \in 1..Len(s) : s[i] = c

\* s.startswith(p)
startswith(s, p) == Len(s) >= Len(p) /\ SubSeq(s, 1, Len(p)) = p

\* str.strip()
strip(s) ==
    LET keep == { i \in 1..Len(s) : s[i] \notin WhitespaceChars }
    IN  IF keep = {}
        THEN << >>
        ELSE SubSeq(s, CHOOSE i \in keep : \A j \in keep : i <= j,
                       CHOOSE i \in keep : \A j \in keep : j <= i)

RECURSIVE SplitFrom(_, _, _)
SplitFrom(s, sep, start) ==
    LET seps == { i \in start..Len(s) : s[i] = sep }
    IN  IF seps = {}
        THEN << SubSeq(s, start, Len(s)) >>
        ELSE LET first == CHOOSE i \in seps : \A j \in seps : i <= j
             IN  << SubSeq(s, start, first - 1) >> \o SplitFrom(s, sep, first + 1)

\* s.split(sep), for a one-character sep
split(s, sep) == SplitFrom(s, sep, 1)

\* The regular expression `$` (no MULTILINE) at the position after the first k
\* characters of s: the end of the string, or just before a newline that ends it.
AtDollar(s, k) ==
    \/ k = Len(s)
    \/ k = Len(s) - 1 /\ s[Len(s)] = "\n"

(***************************************************************************)
(* is_onion_address                                                        *)
(***************************************************************************)
OnionPrefixLen == 16

Onion == << "o", "n", "i", "o", "n" >>

\* The regular expression `.` (no DOTALL): any character but a newline.
OnionDotChar(c) == c # "\n"

\* re.match(r"^[a-z0-9]{16}.onion$", onion_address) is not None
is_onion_address(onion_address) ==
    LET n == OnionPrefixLen
    IN  /\ Len(onion_address) >= n + 1 + Len(Onion)
        /\ \A i \in 1..n : onion_address[i] \in LowerChars \cup DigitChars
        /\ OnionDotChar(onion_address[n + 1])
        /\ SubSeq(onion_address, n + 2, n + 1 + Len(Onion)) = Onion
        /\ AtDollar(onion_address, n + 1 + Len(Onion))

(***************************************************************************)
(* is_valid_label, label, is_valid_hostname                                *)
(***************************************************************************)
LabelMaxLen == 63

HostnameMaxLen == 255

\* [A-Z\d\-\_] under re.IGNORECASE; without \_ for a hostname
LabelChar(c, hostname) ==
    \/ c \in UpperChars
    \/ c \in LowerChars
    \/ c \in DigitChars
    \/ c = "-"
    \/ c = "_" /\ ~hostname

\* re.compile("(?!-)[A-Z\d\-\_]{1,63}(?<!-)$", re.IGNORECASE).match(label)
is_valid_label(label, hostname) ==
    \E k \in 1..LabelMaxLen :
        /\ k <= Len(label)
        /\ label[1] # "-"
        /\ \A i \in 1..k : LabelChar(label[i], hostname)
        /\ label[k] # "-"
        /\ AtDollar(label, k)

\* re.match(r"[\d.]+$", hostname)
MatchesDigitsAndDots(hostname) ==
    \E k \in 1..Len(hostname) :
        /\ \A i \in 1..k : hostname[i] \in DigitChars \cup {"."}
        /\ AtDollar(hostname, k)

is_valid_hostname(hostname) ==
    IF Len(hostname) > HostnameMaxLen
    THEN FALSE
    ELSE IF MatchesDigitsAndDots(hostname)
         THEN FALSE
         ELSE LET xs == split(hostname, ".")
              IN  \A j \in 1..Len(xs) : is_valid_label(xs[j], TRUE)

(***************************************************************************)
(* What a call leaves behind.                                              *)
(***************************************************************************)
NoResult == [raises |-> "", value |-> << >>]

Return(v) == [raises |-> "", value |-> v]

\* raise ValueError(...), named after the place that raises it
Raise(why) == [raises |-> why, value |-> << >>]

\* label(label)
label(l) ==
    IF ~is_valid_label(l, FALSE)
    THEN Raise("not a valid DNS label")
    ELSE Return(l)

(***************************************************************************)
(* domain_name                                                             *)
(***************************************************************************)
\* None, and a str, where either may stand
PyNone == [type |-> "NoneType", str |-> << >>]

PyStr(s) == [type |-> "str", str |-> s]

\* A variant that looks for the dot after the trailing dot is stripped.
IsSubdomainAfterStrip(domain_name_str) ==
    ~Contains(IF domain_name_str[Len(domain_name_str)] = "."
              THEN SubSeq(domain_name_str, 1, Len(domain_name_str) - 1)
              ELSE domain_name_str, ".")

\* is_subdomain = '.' not in domain_name_str
IsSubdomain(domain_name_str) == ~Contains(domain_name_str, ".")

\* A variant that strips every trailing dot, as rstrip(".") would.
StripAllTrailingDots(domain_name_str) ==
    LET keep == { i \in 1..Len(domain_name_str) : domain_name_str[i] # "." }
    IN  IF keep = {}
        THEN << >>
        ELSE SubSeq(domain_name_str, 1, CHOOSE i \in keep : \A j \in keep : j <= i)

\* Strip one dot from the right if it is present
StripTrailingDot(domain_name_str) ==
    IF domain_name_str[Len(domain_name_str)] = "."
    THEN SubSeq(domain_name_str, 1, Len(domain_name_str) - 1)
    ELSE domain_name_str

\* A variant whose comparison is off by one.
TooShortInclusive(domain_name_str, min_subdomain_len) ==
    Len(domain_name_str) <= min_subdomain_len

\* len(domain_name_str) < min_subdomain_len
TooShort(domain_name_str, min_subdomain_len) ==
    Len(domain_name_str) < min_subdomain_len

\* domain_name_str in current_app.config["DOMAIN_BLACKLIST"]
Blacklisted(domain_name_str, cfg) ==
    domain_name_str \in cfg.DOMAIN_BLACKLIST

\* A variant that never finds the flag set.
FqdnRegistrationNeverClosed(cfg) == FALSE

\* current_app.config.get("FQDN_REGISTRATION_CLOSED")
FqdnRegistrationClosed(cfg) == cfg.FQDN_REGISTRATION_CLOSED

Www == << "w", "w", "w", "." >>

domain_name(domain_name_str, cfg) ==
    IF domain_name_str = << >>
    THEN Raise("You must specify a domain name")
    ELSE
    LET is_subdomain == IsSubdomain(domain_name_str)
        stripped == StripTrailingDot(domain_name_str)
        is_valid == is_valid_hostname(stripped)
    IN  IF is_subdomain
        THEN IF ~is_valid
             THEN Raise("not a valid sub-domain name")
             ELSE IF TooShort(stripped, cfg.MIN_SUBDOMAIN_LENGTH)
             THEN Raise("The subdomain must be at least min characters long")
             ELSE IF Blacklisted(stripped, cfg)
             THEN Raise("This subdomain is not allowed")
             ELSE Return([label |-> PyStr(lower(stripped)),
                          zone |-> lower(cfg.SUBDOMAIN_HOST)])
        ELSE IF ~is_valid \/ ~Contains(stripped, ".")
             THEN Raise("not a valid domain name")
             ELSE IF startswith(stripped, Www)
             THEN Raise("The domain name should not include the www. label")
             ELSE IF FqdnRegistrationClosed(cfg)
             THEN Raise("It is not possible to register a full domain")
             ELSE IF Blacklisted(stripped, cfg)
             THEN Raise("The domain is not allowed")
             ELSE Return([label |-> PyNone, zone |-> lower(stripped)])

(***************************************************************************)
(* allowed_dns_record_type                                                 *)
(***************************************************************************)
\* A variant that forgets to strip.
NormalizeWithoutStrip(record_type) == upper(record_type)

\* record_type.strip().upper()
NormalizeRecordType(record_type) == upper(strip(record_type))

allowed_dns_record_type(record_type, cfg) ==
    LET normalized == NormalizeRecordType(record_type)
    IN  IF normalized \notin cfg.ALLOWED_DNS_RECORD_TYPES
        THEN Raise("not an allowed DNS record type")
        ELSE Return(normalized)

(***************************************************************************)
(* The requests and configurations explored.                               *)
(***************************************************************************)
\* Every string of at most n characters of alphabet
Strings(alphabet, n) == UNION { [1..k -> alphabet] : k \in 0..n }

\* n times the letter a
LetterPad(n) == [i \in 1..n |-> "a"]

\* n characters of labels of 31 letters a, joined by dots
HostPad(n) == [i \in 1..n |-> IF i % 32 = 0 THEN "." ELSE "a"]

LabelAlphabet == { "a", "Z", "1", "-", "_", "!", "\n" }

LabelRequests ==
    { LetterPad(n) \o b :
        n \in {0} \cup ((LabelMaxLen - MaxLen)..LabelMaxLen),
        b \in Strings(LabelAlphabet, MaxLen) }

HostnameAlphabet == { "a", "1", ".", "-", "_", "\n" }

HostnameRequests ==
    { HostPad(n) \o b :
        n \in {0} \cup ((HostnameMaxLen - MaxLen - 1)..(HostnameMaxLen - 1)),
        b \in Strings(HostnameAlphabet, MaxLen) }

OnionAlphabet == { "a", "1", "A", ".", "-", "\n" }

\* Lengths around the 16 characters of a v2 address, and the 56 of a v3 address
OnionPadLens == {0, 56} \cup ((OnionPrefixLen - MaxLen)..OnionPrefixLen)

OnionRequests ==
    { LetterPad(n) \o b \o e :
        n \in OnionPadLens,
        b \in Strings(OnionAlphabet, MaxLen),
        e \in { << >>, Onion, Onion \o << "\n" >> } }

DomainAlphabet == { "w", "W", ".", "1", "-", "\n" }

DomainRequests ==
    { p \o b : p \in { << >>, Www }, b \in Strings(DomainAlphabet, MaxDomainLen) }

DomainBlacklists ==
    { {}, { << "w", "w" >>, << "w", ".", "w" >> } }

TypeAlphabet == { "a", "A", "c", " ", "\n" }

RecordTypeRequests == Strings(TypeAlphabet, MaxTypeLen)

AllowedTypeSets ==
    { {}, { << "A" >> }, { << "A" >>, << "A", "A", "A", "A" >>, << "C", "A" >> },
      { << "a" >> } }

DefaultConfig ==
    [ MIN_SUBDOMAIN_LENGTH |-> 3,
      DOMAIN_BLACKLIST |-> { << "w", "w", "w" >> },
      SUBDOMAIN_HOST |-> << "W", ".", "w" >>,
      FQDN_REGISTRATION_CLOSED |-> TRUE,
      ALLOWED_DNS_RECORD_TYPES |-> { << "A" >> } ]

DomainConfigs ==
    { [ DefaultConfig EXCEPT !.MIN_SUBDOMAIN_LENGTH = m,
                             !.DOMAIN_BLACKLIST = b,
                             !.FQDN_REGISTRATION_CLOSED = c ] :
        m \in {0, 2, 3}, b \in DomainBlacklists, c \in BOOLEAN }

RecordTypeConfigs ==
    { [ DefaultConfig EXCEPT !.ALLOWED_DNS_RECORD_TYPES = a ] : a \in AllowedTypeSets }

(***************************************************************************)
(* The calls.  A validator reads the configuration and never writes it.    *)
(***************************************************************************)
Start(o, requests, configs) ==
    /\ op = o
    /\ request \in requests
    /\ config \in configs
    /\ result = NoResult
    /\ pc = "start"

Finish(o, r) ==
    /\ pc = "start"
    /\ op = o
    /\ result' = r
    /\ pc' = "done"
    /\ UNCHANGED <<config, op, request>>

Call_is_valid_label ==
    Finish("is_valid_label", Return(is_valid_label(request.label, request.hostname)))

Call_label == Finish("label", label(request.label))

Call_is_valid_hostname ==
    Finish("is_valid_hostname", Return(is_valid_hostname(request)))

Call_is_onion_address ==
    Finish("is_onion_address", Return(is_onion_address(request)))

Call_domain_name == Finish("domain_name", domain_name(request, config))

Call_allowed_dns_record_type ==
    Finish("allowed_dns_record_type", allowed_dns_record_type(request, config))

InitLabel ==
    \/ Start("is_valid_label",
             { [label |-> l, hostname |-> h] : l \in LabelRequests, h \in BOOLEAN },
             {DefaultConfig})
    \/ Start("label",
             { [label |-> l, hostname |-> FALSE] : l \in LabelRequests },
             {DefaultConfig})

NextLabel == Call_is_valid_label \/ Call_label

SpecLabel == InitLabel /\ [][NextLabel]_vars

InitHostname == Start("is_valid_hostname", HostnameRequests, {DefaultConfig})

NextHostname == Call_is_valid_hostname

SpecHostname == InitHostname /\ [][NextHostname]_vars

InitOnion == Start("is_onion_address", OnionRequests, {DefaultConfig})

NextOnion == Call_is_onion_address

SpecOnion == InitOnion /\ [][NextOnion]_vars

InitDomain == Start("domain_name", DomainRequests, DomainConfigs)

NextDomain == Call_domain_name

SpecDomain == InitDomain /\ [][NextDomain]_vars

InitRecordType ==
    Start("allowed_dns_record_type", RecordTypeRequests, RecordTypeConfigs)

NextRecordType == Call_allowed_dns_record_type

SpecRecordType == InitRecordType /\ [][NextRecordType]_vars

Init == InitLabel \/ InitHostname \/ InitOnion \/ InitDomain \/ InitRecordType

Next ==
    \/ Call_is_valid_label
    \/ Call_label
    \/ Call_is_valid_hostname
    \/ Call_is_onion_address
    \/ Call_domain_name
    \/ Call_allowed_dns_record_type

Spec == Init /\ [][Next]_vars

(***************************************************************************)
(* Vocabulary of the properties.                                           *)
(***************************************************************************)
Done(o) == pc = "done" /\ op = o

\* The failure condition a result stands for: the closed FQDN registration is
\* RegistrationClosed, every other raise is InvalidInput.
FailureClass(r) ==
    IF r.raises = ""
    THEN "none"
    ELSE IF r.raises = "It is not possible to register a full domain"
         THEN "RegistrationClosed"
         ELSE "InvalidInput"

Outcome(r) == [class |-> FailureClass(r), value |-> r.value]

Succeeds(r, v) == r.raises = "" /\ r.value = v

SubdomainShape(s, cfg) ==
    [label |-> PyStr(lower(s)), zone |-> lower(cfg.SUBDOMAIN_HOST)]

RootDomainShape(s) == [label |-> PyNone, zone |-> lower(s)]

EndsWithDot(s) == s # << >> /\ s[Len(s)] = "."

WithoutOneTrailingDot(s) ==
    IF EndsWithDot(s) THEN SubSeq(s, 1, Len(s) - 1) ELSE s

OnlyDigitsAndDots(s) == \A i \in 1..Len(s) : s[i] \in DigitChars \cup {"."}

(***************************************************************************)
(* C1: a successful domain_name call on a request without a dot returns    *)
(* the subdomain shape {label: lower(request), zone: lower(host)}, and on  *)
(* a request with a dot the root-domain shape {label: None, zone:          *)
(* lower(request less one trailing dot)}.                                  *)
(***************************************************************************)
C1_ShapeDecidedByDot ==
    Done("domain_name") /\ result.raises = "" =>
        IF ~Contains(request, ".")
        THEN result.value = SubdomainShape(request, config)
        ELSE result.value = RootDomainShape(WithoutOneTrailingDot(request))

C1_Witness ==
    /\ Done("domain_name")
    /\ result.raises = ""
    /\ EndsWithDot(request)
    /\ request # lower(request)
    /\ result.value.label = PyNone

(***************************************************************************)
(* C2: a request whose lowercased form, less one trailing dot, is in       *)
(* DOMAIN_BLACKLIST makes domain_name fail, whatever its letter case.      *)
(***************************************************************************)
C2_BlacklistedAnyCaseFails ==
    Done("domain_name")
    /\ lower(WithoutOneTrailingDot(request)) \in config.DOMAIN_BLACKLIST
    => result.raises # ""

(***************************************************************************)
(* C3: domain_name gives a request and its lowercased form the same        *)
(* outcome: the same classification, or a failure of the same class.       *)
(***************************************************************************)
C3_CaseInsensitive ==
    Done("domain_name") =>
        Outcome(result) = Outcome(domain_name(lower(request), config))

(***************************************************************************)
(* C4: for a request s with a dot that does not end with one, s and s.     *)
(* have the same outcome, and s.. fails as invalid input: exactly one      *)
(* trailing dot is stripped.                                               *)
(***************************************************************************)
C4_TrailingDotEquivalence ==
    Done("domain_name") /\ Contains(request, ".") /\ ~EndsWithDot(request) =>
        /\ Outcome(domain_name(request \o << "." >>, config)) = Outcome(result)
        /\ FailureClass(domain_name(request \o << ".", "." >>, config))
               = "InvalidInput"

C4_Witness ==
    /\ Done("domain_name")
    /\ Contains(request, ".")
    /\ ~EndsWithDot(request)
    /\ result.raises = ""

(***************************************************************************)
(* C5, as claimed: a dot-free request shorter than MIN_SUBDOMAIN_LENGTH    *)
(* fails as invalid input, and one of exactly MIN_SUBDOMAIN_LENGTH valid   *)
(* label characters succeeds with the subdomain shape.  Read in the        *)
(* claim's favour, the characters are also to form a valid hostname (not   *)
(* empty, not all digits, no hyphen first or last).                        *)
(***************************************************************************)
C5_ExactMinLengthSucceeds ==
    Done("domain_name") /\ ~Contains(request, ".") =>
        /\ Len(request) < config.MIN_SUBDOMAIN_LENGTH =>
               FailureClass(result) = "InvalidInput"
        /\ ( /\ Len(request) = config.MIN_SUBDOMAIN_LENGTH
             /\ \A i \in 1..Len(request) : LabelChar(request[i], TRUE)
             /\ is_valid_hostname(request) ) =>
               Succeeds(result, SubdomainShape(request, config))

(***************************************************************************)
(* C5, amended: a dot-free request shorter than MIN_SUBDOMAIN_LENGTH fails *)
(* as invalid input, and one of exactly MIN_SUBDOMAIN_LENGTH characters    *)
(* that is a valid hostname and is not itself in DOMAIN_BLACKLIST succeeds *)
(* with the subdomain shape.                                               *)
(***************************************************************************)
C5_ExactMinLengthValidSucceeds ==
    Done("domain_name") /\ ~Contains(request, ".") =>
        /\ Len(request) < config.MIN_SUBDOMAIN_LENGTH =>
               FailureClass(result) = "InvalidInput"
        /\ ( /\ Len(request) = config.MIN_SUBDOMAIN_LENGTH
             /\ is_valid_hostname(request)
             /\ request \notin config.DOMAIN_BLACKLIST ) =>
               Succeeds(result, SubdomainShape(request, config))

C5_Witness ==
    /\ Done("domain_name")
    /\ ~Contains(request, ".")
    /\ Len(request) = config.MIN_SUBDOMAIN_LENGTH
    /\ request # lower(request)
    /\ Succeeds(result, SubdomainShape(request, config))

(***************************************************************************)
(* C6, as claimed: a request with a dot that is a valid hostname fails     *)
(* with RegistrationClosed when FQDN_REGISTRATION_CLOSED is set, and       *)
(* succeeds with the root-domain shape when it is not.                     *)
(***************************************************************************)
C6_ClosedElseSucceeds ==
    Done("domain_name") /\ Contains(request, ".") /\ is_valid_hostname(request) =>
        IF config.FQDN_REGISTRATION_CLOSED
        THEN FailureClass(result) = "RegistrationClosed"
        ELSE Succeeds(result, RootDomainShape(request))

(***************************************************************************)
(* C6, amended: a request with a dot that is a valid hostname fails as     *)
(* invalid input when it starts with www.; otherwise it fails with         *)
(* RegistrationClosed when FQDN_REGISTRATION_CLOSED is set; otherwise it   *)
(* fails as invalid input when it is itself in DOMAIN_BLACKLIST, and       *)
(* succeeds with the root-domain shape when it is not.                     *)
(***************************************************************************)
C6_WwwThenClosedThenBlacklist ==
    Done("domain_name") /\ Contains(request, ".") /\ is_valid_hostname(request) =>
        IF startswith(request, Www)
        THEN FailureClass(result) = "InvalidInput"
        ELSE IF config.FQDN_REGISTRATION_CLOSED
        THEN FailureClass(result) = "RegistrationClosed"
        ELSE IF request \in config.DOMAIN_BLACKLIST
        THEN FailureClass(result) = "InvalidInput"
        ELSE Succeeds(result, RootDomainShape(request))

C6_Witness ==
    /\ Done("domain_name")
    /\ Contains(request, ".")
    /\ is_valid_hostname(request)
    /\ config.FQDN_REGISTRATION_CLOSED
    /\ FailureClass(result) = "RegistrationClosed"

(***************************************************************************)
(* C7: is_onion_address is true exactly of 16 characters of [a-z0-9]       *)
(* followed by a literal dot and onion, with nothing before or after.      *)
(***************************************************************************)
C7_OnionExactlyLiteral ==
    Done("is_onion_address") =>
        result.value =
            ( /\ Len(request) = OnionPrefixLen + 1 + Len(Onion)
              /\ \A i \in 1..OnionPrefixLen :
                     request[i] \in LowerChars \cup DigitChars
              /\ request[OnionPrefixLen + 1] = "."
              /\ SubSeq(request, OnionPrefixLen + 2, Len(request)) = Onion )

(***************************************************************************)
(* C8: allowed_dns_record_type returns the stripped, upper-cased request   *)
(* when that is in ALLOWED_DNS_RECORD_TYPES and fails as invalid input     *)
(* otherwise, and leaves the configuration as it was.                      *)
(***************************************************************************)
C8_RecordTypeNormalizedMember ==
    [][ pc = "start" /\ op = "allowed_dns_record_type" =>
            /\ config' = config
            /\ IF upper(strip(request)) \in config.ALLOWED_DNS_RECORD_TYPES
               THEN /\ Succeeds(result', upper(strip(request)))
                    /\ result'.value \in config'.ALLOWED_DNS_RECORD_TYPES
               ELSE FailureClass(result') = "InvalidInput" ]_vars

C8_Witness ==
    /\ Done("allowed_dns_record_type")
    /\ result.raises = ""
    /\ result.value # request
    /\ result.value \in config.ALLOWED_DNS_RECORD_TYPES

(***************************************************************************)
(* C9: is_valid_hostname is false of a string longer than 255 characters   *)
(* and of one made only of digits and dots, and otherwise true exactly     *)
(* when every dot-separated segment passes is_valid_label as a hostname.   *)
(***************************************************************************)
C9_HostnameByLengthDigitsLabels ==
    Done("is_valid_hostname") =>
        result.value =
            IF Len(request) > HostnameMaxLen
            THEN FALSE
            ELSE IF OnlyDigitsAndDots(request)
                 THEN FALSE
                 ELSE LET xs == split(request, ".")
                      IN  \A j \in 1..Len(xs) : is_valid_label(xs[j], TRUE)

(***************************************************************************)
(* C10: is_valid_label is true exactly of 1 to 63 characters of            *)
(* [A-Za-z0-9-], or _ unless for a hostname, that neither start nor end    *)
(* with a hyphen; a string with any other character is rejected.           *)
(***************************************************************************)
C10_LabelExactlyCharset ==
    Done("is_valid_label") =>
        result.value =
            ( /\ Len(request.label) \in 1..LabelMaxLen
              /\ \A i \in 1..Len(request.label) :
                     LabelChar(request.label[i], request.hostname)
              /\ request.label[1] # "-"
              /\ request.label[Len(request.label)] # "-" )

====
